---- MODULE Spec2Model ----
\* Token-based distributed mutual exclusion (modules/Server/Lock/distributedLock.py)
\* over the peer directory (modules/Server/peerList.py) and the request broker
\* (modules/Common/orb.py).
\*
\* Every peer has one local thread (the operator's: start, acquire, release,
\* destroy).  A remote call is synchronous: the caller blocks, the handler runs
\* in a thread of its own on the callee (orb.Request), and its reply or error
\* comes back to the caller.  stk[r] is the chain of calls rooted at the local
\* thread of peer r: stk[r][1] is the local operation, every later frame is a
\* handler (or a local sub-call) the frame below waits for.  Only the top frame
\* of a chain runs.
EXTENDS Integers, Sequences, FiniteSets, TLC

\* ---------------------------------------------------------------- bounds
\* Logical clocks are capped: a step that would advance a clock past MaxTime
\* is disabled.
MaxTime == 6

\* The cap on the clocks in the runs that include joining and leaving (Spec).
LifeTime == 3

\* The cap on the clocks in the runs of the joined peers with contention
\* (SpecLock, SpecRW).
LockTime == 4

\* ---------------------------------------------------------------- constants
NO_TOKEN == 0
TOKEN_PRESENT == 1
TOKEN_HELD == 2

\* The peer ids the name service hands out, in this order.
Peers == {1, 2, 3}

\* self.token before DistributedLock.initialize(): Python's None.  Ids start at
\* 1, so a map whose one key is 0 is no token map.
None == [k \in {0} |-> 0]

\* The monitor (peer_list.lock) when no thread owns it.
Free == <<0, 0>>

VARIABLES
    life,      \* position of the peer's local thread / process
    ns,        \* the name service's registry (ids of the registered peers)
    peers,     \* PeerList.peers: the keys of each peer's directory
    time,      \* DistributedLock.time
    state,     \* DistributedLock.state
    token,     \* DistributedLock.token
    request,   \* DistributedLock.request
    mon,       \* owner of PeerList.lock: <<root, depth>> of the owning frame
    stk,       \* the call chain rooted at each peer's local thread
    exc        \* the exception the last local operation raised ("" when none)

vars == <<life, ns, peers, time, state, token, request, mon, stk, exc>>

\* ---------------------------------------------------------------- helpers
Max(a, b) == IF a >= b THEN a ELSE b

Min(S) == CHOOSE x \in S : \A y \in S : x <= y

\* sorted(d.keys())
SortedSeq(S) ==
    CHOOSE s \in [1..Cardinality(S) -> S] :
        \A i, j \in 1..Cardinality(S) : i < j => s[i] < s[j]

\* list.index(x)
IndexOf(s, x) == CHOOSE i \in 1..Len(s) : s[i] = x

\* d[k] = v
DictSet(d, k, v) == [x \in (DOMAIN d) \cup {k} |-> IF x = k THEN v ELSE d[x]]

\* DictDel that also resets the entries it keeps.
DictDel_Reset(d, k) == [x \in (DOMAIN d) \ {k} |-> 0]

\* del d[k]
DictDel(d, k) == [x \in (DOMAIN d) \ {k} |-> d[x]]

EmptyDict == [x \in {} |-> 0]

\* DistributedLock._prepare: the map as a list of [key, value] pairs
Prepare(tok) ==
    LET ks == SortedSeq(DOMAIN tok)
    IN  [i \in 1..Len(ks) |-> <<ks[i], tok[ks[i]]>>]

\* DistributedLock._unprepare: dict(list of pairs); a later pair wins
Unprepare(l) ==
    LET keys == {l[i][1] : i \in DOMAIN l}
        Last(k) == CHOOSE i \in DOMAIN l :
                     /\ l[i][1] = k
                     /\ \A j \in DOMAIN l : l[j][1] = k => j <= i
    IN  [k \in keys |-> l[Last(k)][2]]

\* A peer whose listener answers: started (orb.Peer.start) and not exited.
Alive(q) == life[q] \notin {"new", "gone", "dead"}

\* ---------------------------------------------------------------- frames
Frame(p, proc, pc) ==
    [peer |-> p, proc |-> proc, pc |-> pc, pids |-> <<>>, cur |-> 0,
     pid |-> 0, t |-> 0, tok |-> <<>>, ret |-> ""]

Top(r) == stk[r][Len(stk[r])]

\* The thread the top frame of chain r runs in.
Me(r) == <<r, Len(stk[r])>>

\* The top frame of chain r is at pc of proc, on a peer whose process runs.
Running(r, proc, pc) ==
    /\ stk[r] # <<>>
    /\ Top(r).proc = proc
    /\ Top(r).pc = pc
    /\ Alive(Top(r).peer)

SetTop(r, f) == [stk EXCEPT ![r] = [@ EXCEPT ![Len(@)] = f]]

\* The top frame becomes f and waits for the new frame g.
Push(r, f, g) == [stk EXCEPT ![r] = Append([@ EXCEPT ![Len(@)] = f], g)]

\* Where the local thread stands after its operation proc ended with res.
AfterLife(proc, res) ==
    CASE proc = "initialize"    -> "idle"
      [] proc = "acquire"       -> IF res = "ok" THEN "cs" ELSE "idle"
      [] proc = "release"       -> "idle"
      [] proc = "destroy"       -> IF res = "ok" THEN "leaving" ELSE "gone"
      [] proc = "pl_destroy"    -> "gone"
      [] proc = "write_acquire" -> IF res = "ok" THEN "writing" ELSE "intent"
      [] proc = "write_release" -> IF res = "ok" THEN "idle" ELSE "writing"

\* The top frame of chain r ends with res ("ok" or the exception's name): the
\* frame below gets res, or the local thread goes on.
Return(r, res) ==
    LET n == Len(stk[r])
        f == stk[r][n]
    IN  IF n > 1
        THEN /\ stk' = [stk EXCEPT ![r] =
                          [SubSeq(@, 1, n - 1) EXCEPT ![n - 1].ret = res]]
             /\ UNCHANGED <<life, exc>>
        ELSE /\ stk' = [stk EXCEPT ![r] =
                          IF f.proc = "destroy" /\ res = "ok"
                          THEN <<Frame(r, "pl_destroy", "x0")>>
                          ELSE <<>>]
             /\ life' = [life EXCEPT ![r] = AfterLife(f.proc, res)]
             /\ exc' = [exc EXCEPT ![r] = IF res = "ok" THEN "" ELSE res]

\* ---------------------------------------------------------------- Init
\* The objects as their constructors leave them (DistributedLock.__init__,
\* PeerList.__init__), no peer started yet.
Init ==
    /\ life = [p \in Peers |-> "new"]
    /\ ns = {}
    /\ peers = [p \in Peers |-> {}]
    /\ time = [p \in Peers |-> 0]
    /\ state = [p \in Peers |-> NO_TOKEN]
    /\ token = [p \in Peers |-> None]
    /\ request = [p \in Peers |-> EmptyDict]
    /\ mon = [p \in Peers |-> Free]
    /\ stk = [p \in Peers |-> <<>>]
    /\ exc = [p \in Peers |-> ""]

\* ---------------------------------------------------------------- DistributedLock.acquire
\* The local thread calls acquire().
Acquire(r) ==
    /\ life[r] = "idle"
    /\ stk[r] = <<>>
    /\ life' = [life EXCEPT ![r] = "acquiring"]
    /\ stk' = [stk EXCEPT ![r] = <<Frame(r, "acquire", "a0")>>]
    /\ exc' = [exc EXCEPT ![r] = ""]
    /\ UNCHANGED <<ns, peers, time, state, token, request, mon>>

\* if self.state == NO_TOKEN:  (read outside the monitor)
AcquireCheck(r) ==
    /\ Running(r, "acquire", "a0")
    /\ stk' = SetTop(r, [Top(r) EXCEPT
                 !.pc = IF state[r] = NO_TOKEN THEN "a1" ELSE "a_wait"])
    /\ UNCHANGED <<life, ns, peers, time, state, token, request, mon, exc>>

\* self.peer_list.lock.acquire(); pids = sorted(self.peer_list.peers.keys())
AcquireLock(r) ==
    /\ Running(r, "acquire", "a1")
    /\ mon[r] = Free
    /\ mon' = [mon EXCEPT ![r] = Me(r)]
    /\ stk' = SetTop(r, [Top(r) EXCEPT !.pc = "a_loop",
                                       !.pids = SortedSeq(peers[r]), !.cur = 0])
    /\ UNCHANGED <<life, ns, peers, time, state, token, request, exc>>

\* The next index of pids after cur that is not the peer's own id (0: none).
NextOther(pids, cur, own) ==
    LET rest == {i \in (cur + 1)..Len(pids) : pids[i] # own}
    IN  IF rest = {} THEN 0 ELSE Min(rest)

\* AcquireNext without the lock.release() of line 196: the monitor is kept
\* across the outbound call.
AcquireNext_Held(r) ==
    LET f == Top(r)
        i == NextOther(f.pids, f.cur, r)
    IN  /\ Running(r, "acquire", "a_loop")
        /\ i # 0
        /\ time[r] < MaxTime
        /\ time' = [time EXCEPT ![r] = @ + 1]
        /\ stk' = SetTop(r, [f EXCEPT !.cur = i,
                                      !.pc = IF f.pids[i] \in peers[r]
                                             THEN "a_send" ELSE "a_loop"])
        /\ UNCHANGED <<life, ns, peers, state, token, request, exc, mon>>

\* One iteration of the for loop up to the outbound call: the clock is
\* advanced, the stub is looked up and the monitor is released.  A KeyError of
\* the lookup and the RuntimeError of releasing a monitor the thread does not
\* own are swallowed by "except: pass", and the loop goes on.
AcquireNext(r) ==
    LET f == Top(r)
        i == NextOther(f.pids, f.cur, r)
    IN  /\ Running(r, "acquire", "a_loop")
        /\ i # 0
        /\ time[r] < MaxTime
        /\ time' = [time EXCEPT ![r] = @ + 1]
        /\ IF f.pids[i] \in peers[r] /\ mon[r] = Me(r)
           THEN /\ mon' = [mon EXCEPT ![r] = Free]
                /\ stk' = SetTop(r, [f EXCEPT !.cur = i, !.pc = "a_send"])
           ELSE /\ mon' = mon
                /\ stk' = SetTop(r, [f EXCEPT !.cur = i])
        /\ UNCHANGED <<life, ns, peers, state, token, request, exc>>

\* peer.request_token(self.time, self.owner.id): the clock is read when the
\* call is made.  A dead peer refuses the connection: the exception leaves the
\* try block before the monitor is taken again.
AcquireSend(r) ==
    LET f == Top(r)
        q == f.pids[f.cur]
    IN  /\ Running(r, "acquire", "a_send")
        /\ IF Alive(q)
           THEN stk' = Push(r, [f EXCEPT !.pc = "a_ret"],
                            [Frame(q, "request_token", "q0") EXCEPT
                                !.t = time[r], !.pid = r])
           ELSE stk' = SetTop(r, [f EXCEPT !.pc = "a_loop"])
        /\ UNCHANGED <<life, ns, peers, time, state, token, request, mon, exc>>

\* The call returned: self.peer_list.lock.acquire() after a reply, nothing
\* after an error (except: pass).
AcquireResume(r) ==
    LET f == Top(r)
    IN  /\ Running(r, "acquire", "a_ret")
        /\ IF f.ret = "ok"
           THEN /\ mon[r] = Free
                /\ mon' = [mon EXCEPT ![r] = Me(r)]
           ELSE mon' = mon
        /\ stk' = SetTop(r, [f EXCEPT !.pc = "a_loop", !.ret = ""])
        /\ UNCHANGED <<life, ns, peers, time, state, token, request, exc>>

\* finally: self.peer_list.lock.release().  Releasing a monitor this thread
\* does not own raises RuntimeError out of acquire().
AcquireUnlock(r) ==
    LET f == Top(r)
    IN  /\ Running(r, "acquire", "a_loop")
        /\ NextOther(f.pids, f.cur, r) = 0
        /\ IF mon[r] = Me(r)
           THEN /\ mon' = [mon EXCEPT ![r] = Free]
                /\ stk' = SetTop(r, [f EXCEPT !.pc = "a_wait"])
                /\ UNCHANGED <<life, exc>>
           ELSE /\ mon' = mon
                /\ Return(r, "RuntimeError")
        /\ UNCHANGED <<ns, peers, time, state, token, request>>

\* while self.state == NO_TOKEN: pass
AcquireWait(r) ==
    /\ Running(r, "acquire", "a_wait")
    /\ state[r] # NO_TOKEN
    /\ stk' = SetTop(r, [Top(r) EXCEPT !.pc = "a_set"])
    /\ UNCHANGED <<life, ns, peers, time, state, token, request, mon, exc>>

\* self.state = TOKEN_HELD
AcquireSet(r) ==
    /\ Running(r, "acquire", "a_set")
    /\ state' = [state EXCEPT ![r] = TOKEN_HELD]
    /\ Return(r, "ok")
    /\ UNCHANGED <<ns, peers, time, token, request, mon>>

\* ---------------------------------------------------------------- DistributedLock.release
\* The local thread calls release() after its critical section.
Release(r) ==
    /\ life[r] = "cs"
    /\ stk[r] = <<>>
    /\ life' = [life EXCEPT ![r] = "releasing"]
    /\ stk' = [stk EXCEPT ![r] = <<Frame(r, "release", "r0")>>]
    /\ exc' = [exc EXCEPT ![r] = ""]
    /\ UNCHANGED <<ns, peers, time, state, token, request, mon>>

\* if self.state == NO_TOKEN: return  (read outside the monitor)
ReleaseCheck(r) ==
    LET f == Top(r)
    IN  /\ Running(r, "release", "r0")
        /\ IF state[f.peer] = NO_TOKEN
           THEN Return(r, "ok")
           ELSE /\ stk' = SetTop(r, [f EXCEPT !.pc = "r1"])
                /\ UNCHANGED <<life, exc>>
        /\ UNCHANGED <<ns, peers, time, state, token, request, mon>>

\* lock.acquire(); self.state = TOKEN_PRESENT; pids = sorted(...);
\* cur = pids.index(self.owner.id), which raises ValueError out of release()
\* (finally: lock.release()) when the directory lacks the peer's own id.
ReleaseLock(r) ==
    LET f == Top(r)
        p == f.peer
    IN  /\ Running(r, "release", "r1")
        /\ mon[p] = Free
        /\ state' = [state EXCEPT ![p] = TOKEN_PRESENT]
        /\ IF p \in peers[p]
           THEN /\ mon' = [mon EXCEPT ![p] = Me(r)]
                /\ stk' = SetTop(r, [f EXCEPT !.pc = "r_scan",
                                       !.pids = SortedSeq(peers[p]),
                                       !.cur = IndexOf(SortedSeq(peers[p]), p)])
                /\ UNCHANGED <<life, exc>>
           ELSE /\ mon' = mon
                /\ Return(r, "ValueError")
        /\ UNCHANGED <<ns, peers, time, token, request>>

\* The indices the while loop visits from cur, in order: cur + 1, ..., wrapping
\* to the first, up to (not including) the releaser's own index.
ScanOrder(pids, cur, own) ==
    LET n == Len(pids)
        me == IndexOf(pids, own)
        Nxt(i) == IF i + 1 > n THEN 1 ELSE i + 1
        steps == IF me > cur THEN me - cur - 1 ELSE n - cur + me - 1
        At[k \in 0..n] == IF k = 0 THEN cur ELSE Nxt(At[k - 1])
    IN  [k \in 1..steps |-> At[k]]

\* Stops without the comparison of the timestamps: any recorded request
\* stops the scan.
Stops_AnyRequest(p, pid) == pid \in DOMAIN request[p]

\* The test of line 249 succeeds or fails to evaluate (KeyError of
\* self.token[pid]) at pid.
Stops(p, pid) ==
    /\ pid \in DOMAIN request[p]
    /\ \/ pid \notin DOMAIN token[p]
       \/ request[p][pid] > token[p][pid]

\* ScanNext with the scan run backwards: the last index at which the loop
\* would stop.
ScanNext_Last(p, pids, cur) ==
    LET ord == ScanOrder(pids, cur, p)
        hits == {k \in 1..Len(ord) : Stops(p, pids[ord[k]])}
    IN  IF hits = {} THEN 0 ELSE ord[CHOOSE k \in hits : \A j \in hits : j <= k]

\* The first index of the scan at which the loop stops scanning (0: the scan
\* comes back to the releaser's own index).
ScanNext(p, pids, cur) ==
    LET ord == ScanOrder(pids, cur, p)
        hits == {k \in 1..Len(ord) : Stops(p, pids[ord[k]])}
    IN  IF hits = {} THEN 0 ELSE ord[Min(hits)]

\* The scan finds no peer to serve: finally: lock.release(); the state stays
\* as it is.
ReleaseKeep(r) ==
    LET f == Top(r)
        p == f.peer
    IN  /\ Running(r, "release", "r_scan")
        /\ ScanNext(p, f.pids, f.cur) = 0
        /\ mon' = [mon EXCEPT ![p] = Free]
        /\ Return(r, "ok")
        /\ UNCHANGED <<ns, peers, time, state, token, request>>

\* The scan reaches a pid in request that token has no entry for:
\* self.token[pid] raises KeyError out of release().
ReleaseKeyError(r) ==
    LET f == Top(r)
        p == f.peer
        i == ScanNext(p, f.pids, f.cur)
    IN  /\ Running(r, "release", "r_scan")
        /\ i # 0
        /\ f.pids[i] \notin DOMAIN token[p]
        /\ mon' = [mon EXCEPT ![p] = Free]
        /\ Return(r, "KeyError")
        /\ UNCHANGED <<ns, peers, time, state, token, request>>

\* The token as release() stamps it for candidate pid (lines 256-262).
Stamped(p, pid) == DictSet(DictSet(token[p], p, time[p]), pid, time[p] + 1)

\* The scan selects pids[i]: tokencpy = self.token.copy() (kept in the frame's
\* tok), the token is stamped, the clock advanced and obtain_token is called
\* (the call keeps the sender's clock in t).  When the candidate is dead the
\* call raises and the handler assigns the snapshot to a local name:
\* self.token keeps the stamps.
ReleaseOffer(r) ==
    LET f == Top(r)
        p == f.peer
        i == ScanNext(p, f.pids, f.cur)
        pid == f.pids[i]
    IN  /\ Running(r, "release", "r_scan")
        /\ i # 0
        /\ pid \in DOMAIN token[p]
        /\ time[p] < MaxTime
        /\ token' = [token EXCEPT ![p] = Stamped(p, pid)]
        /\ time' = [time EXCEPT ![p] = @ + 1]
        /\ IF Alive(pid)
           THEN stk' = Push(r, [f EXCEPT !.cur = i, !.pc = "r_ret",
                                         !.tok = token[p]],
                            [Frame(pid, "obtain_token", "o0") EXCEPT
                                !.tok = Prepare(Stamped(p, pid)),
                                !.t = time[p] + 1])
           ELSE stk' = SetTop(r, [f EXCEPT !.cur = i, !.tok = token[p]])
        /\ UNCHANGED <<life, ns, peers, state, request, mon, exc>>

\* obtain_token replied: self.state = NO_TOKEN; break; finally: lock.release().
\* obtain_token raised: "token = tokencpy" binds a local name, the scan goes on.
ReleaseResume(r) ==
    LET f == Top(r)
        p == f.peer
    IN  /\ Running(r, "release", "r_ret")
        /\ IF f.ret = "ok"
           THEN /\ state' = [state EXCEPT ![p] = NO_TOKEN]
                /\ mon' = [mon EXCEPT ![p] = Free]
                /\ Return(r, "ok")
           ELSE /\ stk' = SetTop(r, [f EXCEPT !.pc = "r_scan", !.ret = ""])
                /\ UNCHANGED <<state, mon, life, exc>>
        /\ UNCHANGED <<ns, peers, time, token, request>>

\* ---------------------------------------------------------------- DistributedLock.request_token
\* The clock after request_token(t, pid) arrived.
RecvClock(t, clock) == Max(t, clock + 1)

\* Under the monitor: the clock and request[pid] are updated.
RequestToken(r) ==
    LET f == Top(r)
        q == f.peer
        c == RecvClock(f.t, time[q])
    IN  /\ Running(r, "request_token", "q0")
        /\ mon[q] = Free
        /\ time[q] < MaxTime
        /\ time' = [time EXCEPT ![q] = c]
        /\ request' = [request EXCEPT ![q] =
                         DictSet(@, f.pid,
                                 IF f.pid \in DOMAIN @ THEN Max(@[f.pid], c) ELSE c)]
        /\ stk' = SetTop(r, [f EXCEPT !.pc = "q1"])
        /\ UNCHANGED <<life, ns, peers, state, token, mon, exc>>

\* if self.state == TOKEN_PRESENT: self.release()  (read outside the monitor)
RequestTokenCheck(r) ==
    LET f == Top(r)
        q == f.peer
    IN  /\ Running(r, "request_token", "q1")
        /\ IF state[q] = TOKEN_PRESENT
           THEN /\ stk' = Push(r, [f EXCEPT !.pc = "q_ret"], Frame(q, "release", "r0"))
                /\ UNCHANGED <<life, exc>>
           ELSE Return(r, "ok")
        /\ UNCHANGED <<ns, peers, time, state, token, request, mon>>

\* release() returned or raised: the handler ends the same way.
RequestTokenDone(r) ==
    /\ Running(r, "request_token", "q_ret")
    /\ Return(r, Top(r).ret)
    /\ UNCHANGED <<ns, peers, time, state, token, request, mon>>

\* ---------------------------------------------------------------- DistributedLock.obtain_token
\* ObtainClock without the max(): the clock is set to the token's entry.
ObtainClock_Entry(clock, e) == e

\* The clock after obtain_token installed a token whose entry for the peer is e.
ObtainClock(clock, e) == Max(clock + 1, e)

\* Under the monitor: the token is installed, the state set and the clock
\* updated; self.token[self.owner.id] raises KeyError when the map has no entry
\* for this peer, after the state was set.
ObtainToken(r) ==
    LET f == Top(r)
        q == f.peer
        tk == Unprepare(f.tok)
    IN  /\ Running(r, "obtain_token", "o0")
        /\ mon[q] = Free
        /\ time[q] < MaxTime
        /\ token' = [token EXCEPT ![q] = tk]
        /\ state' = [state EXCEPT ![q] = TOKEN_PRESENT]
        /\ IF q \in DOMAIN tk
           THEN /\ time' = [time EXCEPT ![q] = ObtainClock(@, tk[q])]
                /\ Return(r, "ok")
           ELSE /\ time' = time
                /\ Return(r, "KeyError")
        /\ UNCHANGED <<ns, peers, request, mon>>

\* ---------------------------------------------------------------- joining
\* orb.Peer.start: the listener starts and the name service registers the
\* peer under the next id; the server then calls PeerList.initialize().
\* Peers are started one at a time: the next one after the one before it has
\* finished initializing.
Start(r) ==
    /\ life[r] = "new"
    /\ \A q \in Peers : q < r => life[q] \notin {"new", "joining"}
    /\ ns' = ns \cup {r}
    /\ life' = [life EXCEPT ![r] = "joining"]
    /\ stk' = [stk EXCEPT ![r] = <<Frame(r, "pl_initialize", "i0")>>]
    /\ UNCHANGED <<peers, time, state, token, request, mon, exc>>

\* PeerList.initialize: self.lock.acquire(); rep = require_all(type)
PLInitLock(r) ==
    /\ Running(r, "pl_initialize", "i0")
    /\ mon[r] = Free
    /\ mon' = [mon EXCEPT ![r] = Me(r)]
    /\ stk' = SetTop(r, [Top(r) EXCEPT !.pc = "i_loop",
                                       !.pids = SortedSeq(ns), !.cur = 0])
    /\ UNCHANGED <<life, ns, peers, time, state, token, request, exc>>

\* One entry of rep.  A lower id is sent register_peer (a dead peer refuses
\* the connection and is left out); the peer's own and higher ids are added
\* without a call.
PLInitNext(r) ==
    LET f == Top(r)
        i == f.cur + 1
        pid == f.pids[i]
    IN  /\ Running(r, "pl_initialize", "i_loop")
        /\ i <= Len(f.pids)
        /\ IF pid < r
           THEN /\ peers' = peers
                /\ IF Alive(pid)
                   THEN stk' = Push(r, [f EXCEPT !.cur = i, !.pc = "i_ret"],
                                    [Frame(pid, "register_peer", "g0") EXCEPT
                                        !.pid = r])
                   ELSE stk' = SetTop(r, [f EXCEPT !.cur = i])
           ELSE /\ peers' = [peers EXCEPT ![r] = @ \cup {pid}]
                /\ stk' = SetTop(r, [f EXCEPT !.cur = i])
        /\ UNCHANGED <<life, ns, time, state, token, request, mon, exc>>

\* register_peer returned: self.peers[pid] = stub after a reply, nothing after
\* an error.
PLInitResume(r) ==
    LET f == Top(r)
    IN  /\ Running(r, "pl_initialize", "i_ret")
        /\ peers' = [peers EXCEPT ![r] =
                       IF f.ret = "ok" THEN @ \cup {f.pids[f.cur]} ELSE @]
        /\ stk' = SetTop(r, [f EXCEPT !.pc = "i_loop", !.ret = ""])
        /\ UNCHANGED <<life, ns, time, state, token, request, mon, exc>>

\* finally: self.lock.release(); the server goes on to
\* DistributedLock.initialize().  The frame keeps rep in pids.
PLInitDone(r) ==
    LET f == Top(r)
    IN  /\ Running(r, "pl_initialize", "i_loop")
        /\ f.cur = Len(f.pids)
        /\ mon' = [mon EXCEPT ![r] = Free]
        /\ stk' = SetTop(r, [f EXCEPT !.proc = "initialize", !.pc = "l0"])
        /\ UNCHANGED <<life, ns, peers, time, state, token, request, exc>>

\* InitialState with max() in place of min().
InitialState_Max(p, dir, st) ==
    IF \A x \in dir : x <= p THEN TOKEN_PRESENT ELSE st

\* The state DistributedLock.initialize() leaves.
InitialState(p, dir, st) == IF Min(dir) = p THEN TOKEN_PRESENT ELSE st

\* DistributedLock.initialize, under the monitor.
LockInitialize(r) ==
    /\ Running(r, "initialize", "l0")
    /\ mon[r] = Free
    /\ state' = [state EXCEPT ![r] = InitialState(r, peers[r], @)]
    /\ token' = [token EXCEPT ![r] = [pid \in peers[r] |-> 0]]
    /\ stk' = SetTop(r, [Top(r) EXCEPT !.pc = "l_done"])
    /\ UNCHANGED <<life, ns, peers, time, request, mon, exc>>

\* initialize() returns: the peer is up.
LockInitialized(r) ==
    /\ Running(r, "initialize", "l_done")
    /\ Return(r, "ok")
    /\ UNCHANGED <<ns, peers, time, state, token, request, mon>>

\* ---------------------------------------------------------------- register_peer / unregister_peer
\* PeerList.register_peer, under the monitor.
RegisterPeerList(r) ==
    LET f == Top(r)
        q == f.peer
    IN  /\ Running(r, "register_peer", "g0")
        /\ mon[q] = Free
        /\ peers' = [peers EXCEPT ![q] = @ \cup {f.pid}]
        /\ stk' = SetTop(r, [f EXCEPT !.pc = "g1"])
        /\ UNCHANGED <<life, ns, time, state, token, request, mon, exc>>

\* DistributedLock.register_peer, under the monitor: self.token[pid] = 0
\* raises TypeError while self.token is None.
RegisterPeerLock(r) ==
    LET f == Top(r)
        q == f.peer
    IN  /\ Running(r, "register_peer", "g1")
        /\ mon[q] = Free
        /\ IF token[q] = None
           THEN /\ token' = token
                /\ Return(r, "TypeError")
           ELSE /\ token' = [token EXCEPT ![q] = DictSet(@, f.pid, 0)]
                /\ Return(r, "ok")
        /\ UNCHANGED <<ns, peers, time, state, request, mon>>

\* UnregisterPeerList without the else branch: an unknown pid is passed over
\* in silence.
UnregisterPeerList_Silent(r) ==
    LET f == Top(r)
        q == f.peer
    IN  /\ Running(r, "unregister_peer", "u0")
        /\ mon[q] = Free
        /\ peers' = [peers EXCEPT ![q] = @ \ {f.pid}]
        /\ stk' = SetTop(r, [f EXCEPT !.pc = "u1"])
        /\ UNCHANGED <<life, exc, ns, time, state, token, request, mon>>

\* PeerList.unregister_peer, under the monitor: an unknown pid raises Exception.
UnregisterPeerList(r) ==
    LET f == Top(r)
        q == f.peer
    IN  /\ Running(r, "unregister_peer", "u0")
        /\ mon[q] = Free
        /\ IF f.pid \in peers[q]
           THEN /\ peers' = [peers EXCEPT ![q] = @ \ {f.pid}]
                /\ stk' = SetTop(r, [f EXCEPT !.pc = "u1"])
                /\ UNCHANGED <<life, exc>>
           ELSE /\ peers' = peers
                /\ Return(r, "Exception")
        /\ UNCHANGED <<ns, time, state, token, request, mon>>

\* DistributedLock.unregister_peer, under the monitor: del self.token[pid]
\* raises (TypeError on None, KeyError on a missing key) before the request
\* entry is looked at.
UnregisterPeerLock(r) ==
    LET f == Top(r)
        q == f.peer
    IN  /\ Running(r, "unregister_peer", "u1")
        /\ mon[q] = Free
        /\ IF token[q] = None \/ f.pid \notin DOMAIN token[q]
           THEN /\ UNCHANGED <<token, request>>
                /\ Return(r, IF token[q] = None THEN "TypeError" ELSE "KeyError")
           ELSE /\ token' = [token EXCEPT ![q] = DictDel(@, f.pid)]
                /\ request' = [request EXCEPT ![q] = DictDel(@, f.pid)]
                /\ Return(r, "ok")
        /\ UNCHANGED <<ns, peers, time, state, mon>>

\* ---------------------------------------------------------------- leaving
\* The peers that left, are leaving or died.  At most one peer of a run does.
Leavers == {q \in Peers : life[q] \in {"leaving", "gone", "dead"}}

\* The server's destroy: orb.Peer.destroy unregisters from the name service,
\* then DistributedLock.destroy() and PeerList.destroy() run.
Shutdown(r) ==
    /\ life[r] \in {"idle", "cs"}
    /\ stk[r] = <<>>
    /\ ns' = ns \ {r}
    /\ life' = [life EXCEPT ![r] = "leaving"]
    /\ stk' = [stk EXCEPT ![r] = <<Frame(r, "destroy", "d0")>>]
    /\ exc' = [exc EXCEPT ![r] = ""]
    /\ UNCHANGED <<peers, time, state, token, request, mon>>

\* The shutdown of the first peer of the run to stop.
Destroy(r) == Leavers = {} /\ Shutdown(r)

\* if self.state == TOKEN_HELD: self.release()  (read outside the monitor)
DestroyCheck(r) ==
    LET f == Top(r)
    IN  /\ Running(r, "destroy", "d0")
        /\ IF state[r] = TOKEN_HELD
           THEN stk' = Push(r, [f EXCEPT !.pc = "d_rel"], Frame(r, "release", "r0"))
           ELSE stk' = SetTop(r, [f EXCEPT !.pc = "d1"])
        /\ UNCHANGED <<life, ns, peers, time, state, token, request, mon, exc>>

\* release() returned, or raised out of destroy().
DestroyReleased(r) ==
    LET f == Top(r)
    IN  /\ Running(r, "destroy", "d_rel")
        /\ IF f.ret = "ok"
           THEN /\ stk' = SetTop(r, [f EXCEPT !.pc = "d1", !.ret = ""])
                /\ UNCHANGED <<life, exc>>
           ELSE Return(r, f.ret)
        /\ UNCHANGED <<ns, peers, time, state, token, request, mon>>

\* lock.acquire(); with one directory entry: return (finally: lock.release()).
\* Otherwise pids = sorted(...); cur = pids.index(self.owner.id), which raises
\* ValueError when the directory lacks the peer's own id.
DestroyLock(r) ==
    LET f == Top(r)
    IN  /\ Running(r, "destroy", "d1")
        /\ mon[r] = Free
        /\ IF Cardinality(peers[r]) = 1 \/ r \notin peers[r]
           THEN /\ mon' = mon
                /\ Return(r, IF Cardinality(peers[r]) = 1 THEN "ok" ELSE "ValueError")
           ELSE /\ mon' = [mon EXCEPT ![r] = Me(r)]
                /\ stk' = SetTop(r, [f EXCEPT !.pc = "d_loop",
                                              !.pids = SortedSeq(peers[r]),
                                              !.cur = IndexOf(SortedSeq(peers[r]), r)])
                /\ UNCHANGED <<life, exc>>
        /\ UNCHANGED <<ns, peers, time, state, token, request>>

\* cur = cur + 1; if cur == len(pids): cur = 0
NextCircular(pids, cur) == IF cur + 1 > Len(pids) THEN 1 ELSE cur + 1

\* while self.state == TOKEN_PRESENT: the token is offered, as it is, to the
\* next entry of pids, whichever it is.  A dead peer refuses the connection
\* (except: pass).
DestroyOffer(r) ==
    LET f == Top(r)
        i == NextCircular(f.pids, f.cur)
        pid == f.pids[i]
    IN  /\ Running(r, "destroy", "d_loop")
        /\ state[r] = TOKEN_PRESENT
        /\ IF Alive(pid)
           THEN stk' = Push(r, [f EXCEPT !.cur = i, !.pc = "d_ret"],
                            [Frame(pid, "obtain_token", "o0") EXCEPT
                                !.tok = Prepare(token[r]), !.t = time[r]])
           ELSE stk' = SetTop(r, [f EXCEPT !.cur = i])
        /\ UNCHANGED <<life, ns, peers, time, state, token, request, mon, exc>>

\* obtain_token returned: self.state = NO_TOKEN after a reply, nothing after
\* an error.
DestroyResume(r) ==
    LET f == Top(r)
    IN  /\ Running(r, "destroy", "d_ret")
        /\ state' = [state EXCEPT ![r] = IF f.ret = "ok" THEN NO_TOKEN ELSE @]
        /\ stk' = SetTop(r, [f EXCEPT !.pc = "d_loop", !.ret = ""])
        /\ UNCHANGED <<life, ns, peers, time, token, request, mon, exc>>

\* The while loop ends: finally: lock.release()
DestroyDone(r) ==
    /\ Running(r, "destroy", "d_loop")
    /\ state[r] # TOKEN_PRESENT
    /\ mon' = [mon EXCEPT ![r] = Free]
    /\ Return(r, "ok")
    /\ UNCHANGED <<ns, peers, time, state, token, request>>

\* PeerList.destroy: self.lock.acquire(); pids = sorted(self.peers.keys())
PLDestroyLock(r) ==
    /\ Running(r, "pl_destroy", "x0")
    /\ mon[r] = Free
    /\ mon' = [mon EXCEPT ![r] = Me(r)]
    /\ stk' = SetTop(r, [Top(r) EXCEPT !.pc = "x_loop",
                                       !.pids = SortedSeq(peers[r]), !.cur = 0])
    /\ UNCHANGED <<life, ns, peers, time, state, token, request, exc>>

\* unregister_peer(self.owner.id) is sent to the next other peer; a dead peer
\* refuses the connection (except: pass).
PLDestroyNext(r) ==
    LET f == Top(r)
        i == NextOther(f.pids, f.cur, r)
        pid == f.pids[i]
    IN  /\ Running(r, "pl_destroy", "x_loop")
        /\ i # 0
        /\ IF Alive(pid)
           THEN stk' = Push(r, [f EXCEPT !.cur = i, !.pc = "x_ret"],
                            [Frame(pid, "unregister_peer", "u0") EXCEPT !.pid = r])
           ELSE stk' = SetTop(r, [f EXCEPT !.cur = i])
        /\ UNCHANGED <<life, ns, peers, time, state, token, request, mon, exc>>

\* unregister_peer returned or raised (except: pass).
PLDestroyResume(r) ==
    /\ Running(r, "pl_destroy", "x_ret")
    /\ stk' = SetTop(r, [Top(r) EXCEPT !.pc = "x_loop", !.ret = ""])
    /\ UNCHANGED <<life, ns, peers, time, state, token, request, mon, exc>>

\* finally: self.lock.release(); the process exits.
PLDestroyDone(r) ==
    LET f == Top(r)
    IN  /\ Running(r, "pl_destroy", "x_loop")
        /\ NextOther(f.pids, f.cur, r) = 0
        /\ mon' = [mon EXCEPT ![r] = Free]
        /\ Return(r, "ok")
        /\ UNCHANGED <<ns, peers, time, state, token, request>>

\* The process of the peer a handler runs on has exited (its handler threads
\* are daemon threads): the caller reads no reply and the call raises.
ConnectionLost(r) ==
    /\ Len(stk[r]) > 1
    /\ ~Alive(Top(r).peer)
    /\ Return(r, "ValueError")
    /\ UNCHANGED <<ns, peers, time, state, token, request, mon>>

\* ---------------------------------------------------------------- death
\* No frame of another peer's chain runs on peer q, and q waits for no call.
NoFrameAt(q) ==
    /\ Len(stk[q]) <= 1
    /\ \A r \in Peers \ {q} : \A i \in 1..Len(stk[r]) : stk[r][i].peer # q

\* A peer that has no token and takes part in no remote call dies unannounced
\* (idle, or inside acquire()): the name service still lists it, its listener
\* no longer answers.
Crash(r) ==
    /\ life[r] \in {"idle", "acquiring"}
    /\ state[r] = NO_TOKEN
    /\ NoFrameAt(r)
    /\ life' = [life EXCEPT ![r] = "dead"]
    /\ stk' = [stk EXCEPT ![r] = <<>>]
    /\ mon' = [mon EXCEPT ![r] = Free]
    /\ UNCHANGED <<ns, peers, time, state, token, request, exc>>

\* The death of the first peer of the run to stop.
Die(r) == Leavers = {} /\ Crash(r)

\* ---------------------------------------------------------------- DistributedReadWriteLock
\* The local thread calls write_acquire().  It is the peer's one writer
\* thread, so distributed_lock_access is free when it asks for it.
WriteAcquire(r) ==
    /\ life[r] = "idle"
    /\ stk[r] = <<>>
    /\ life' = [life EXCEPT ![r] = "w_acquiring"]
    /\ stk' = [stk EXCEPT ![r] = <<Frame(r, "write_acquire", "w0")>>]
    /\ exc' = [exc EXCEPT ![r] = ""]
    /\ UNCHANGED <<ns, peers, time, state, token, request, mon>>

\* self.distributed_lock_access.acquire(); self.distributed_lock.acquire()
WriteAcquireToken(r) ==
    /\ Running(r, "write_acquire", "w0")
    /\ stk' = Push(r, [Top(r) EXCEPT !.pc = "w_ret"], Frame(r, "acquire", "a0"))
    /\ UNCHANGED <<life, ns, peers, time, state, token, request, mon, exc>>

\* acquire() returned: ReadWriteLock.write_acquire(self) takes the local
\* writer lock.  acquire() raised: the error leaves write_acquire() with
\* distributed_lock_access still locked ("intent").
WriteAcquireLocal(r) ==
    /\ Running(r, "write_acquire", "w_ret")
    /\ Return(r, Top(r).ret)
    /\ UNCHANGED <<ns, peers, time, state, token, request, mon>>

\* The local thread calls write_release() after its write.
WriteRelease(r) ==
    /\ life[r] = "writing"
    /\ stk[r] = <<>>
    /\ life' = [life EXCEPT ![r] = "w_releasing"]
    /\ stk' = [stk EXCEPT ![r] = <<Frame(r, "write_release", "v0")>>]
    /\ exc' = [exc EXCEPT ![r] = ""]
    /\ UNCHANGED <<ns, peers, time, state, token, request, mon>>

\* self.distributed_lock.release()
WriteReleaseToken(r) ==
    /\ Running(r, "write_release", "v0")
    /\ stk' = Push(r, [Top(r) EXCEPT !.pc = "v_ret"], Frame(r, "release", "r0"))
    /\ UNCHANGED <<life, ns, peers, time, state, token, request, mon, exc>>

\* release() returned: self.distributed_lock_access.release().  release()
\* raised: the error leaves write_release() with the writer lock held.
WriteReleaseMutex(r) ==
    LET f == Top(r)
    IN  /\ Running(r, "write_release", "v_ret")
        /\ IF f.ret = "ok"
           THEN /\ stk' = SetTop(r, [f EXCEPT !.pc = "v_local", !.ret = ""])
                /\ UNCHANGED <<life, exc>>
           ELSE Return(r, f.ret)
        /\ UNCHANGED <<ns, peers, time, state, token, request, mon>>

\* ReadWriteLock.write_release(self) gives the local writer lock back.
WriteReleaseLocal(r) ==
    /\ Running(r, "write_release", "v_local")
    /\ Return(r, "ok")
    /\ UNCHANGED <<ns, peers, time, state, token, request, mon>>

\* ---------------------------------------------------------------- specifications
\* The steps that leave the clocks alone.
JoinStep(r) ==
    \/ Start(r) \/ PLInitLock(r) \/ PLInitNext(r) \/ PLInitResume(r)
    \/ PLInitDone(r) \/ LockInitialize(r) \/ LockInitialized(r)
    \/ RegisterPeerList(r) \/ RegisterPeerLock(r)

LeaveStep(r) ==
    \/ Destroy(r) \/ DestroyCheck(r) \/ DestroyReleased(r) \/ DestroyLock(r)
    \/ DestroyOffer(r) \/ DestroyResume(r) \/ DestroyDone(r)
    \/ PLDestroyLock(r) \/ PLDestroyNext(r) \/ PLDestroyResume(r)
    \/ PLDestroyDone(r)
    \/ UnregisterPeerList(r) \/ UnregisterPeerLock(r)
    \/ ConnectionLost(r)

QuietStep(r) ==
    \/ Acquire(r) \/ AcquireCheck(r) \/ AcquireLock(r)
    \/ AcquireSend(r) \/ AcquireResume(r) \/ AcquireUnlock(r)
    \/ AcquireWait(r) \/ AcquireSet(r)
    \/ Release(r) \/ ReleaseCheck(r) \/ ReleaseLock(r) \/ ReleaseKeep(r)
    \/ ReleaseResume(r)
    \/ RequestTokenCheck(r) \/ RequestTokenDone(r)
    \/ Die(r)

\* No clock is past LifeTime after the step.
Early == \A p \in Peers : time'[p] <= LifeTime

\* The steps that leave the clocks within LockTime.
Within == \A p \in Peers : time'[p] <= LockTime

\* The whole life of the system, from the constructors on: peers join,
\* acquire and release, leave and die.
Next ==
    \E r \in Peers :
        \/ JoinStep(r)
        \/ LeaveStep(r)
        \/ QuietStep(r)
        \/ ReleaseKeyError(r)
        \/ (AcquireNext(r) /\ Early)
        \/ (ReleaseOffer(r) /\ Early)
        \/ (RequestToken(r) /\ Early)
        \/ (ObtainToken(r) /\ Early)

Spec == Init /\ [][Next]_vars

\* The system after peers 1, 2 and 3 joined one after the other: every
\* directory lists all three, every token map is zero and peer 1 has the token.
InitJoined ==
    /\ life = [p \in Peers |-> "idle"]
    /\ ns = Peers
    /\ peers = [p \in Peers |-> Peers]
    /\ time = [p \in Peers |-> 0]
    /\ state = [p \in Peers |-> IF p = Min(Peers) THEN TOKEN_PRESENT ELSE NO_TOKEN]
    /\ token = [p \in Peers |-> [q \in Peers |-> 0]]
    /\ request = [p \in Peers |-> EmptyDict]
    /\ mon = [p \in Peers |-> Free]
    /\ stk = [p \in Peers |-> <<>>]
    /\ exc = [p \in Peers |-> ""]

\* The token protocol among the joined peers: acquire, release, the two
\* handlers, and the death of a peer.
NextLock ==
    \E r \in Peers :
        \/ QuietStep(r)
        \/ (AcquireNext(r) /\ Within)
        \/ (ReleaseOffer(r) /\ Within)
        \/ (RequestToken(r) /\ Within)
        \/ (ObtainToken(r) /\ Within)

SpecLock == InitJoined /\ [][NextLock]_vars

\* The steps of acquire(), release() and the two handlers that leave the
\* clocks alone, whoever called them.
ProtocolStep(r) ==
    \/ AcquireCheck(r) \/ AcquireLock(r)
    \/ AcquireSend(r) \/ AcquireResume(r) \/ AcquireUnlock(r)
    \/ AcquireWait(r) \/ AcquireSet(r)
    \/ ReleaseCheck(r) \/ ReleaseLock(r) \/ ReleaseKeep(r)
    \/ ReleaseResume(r)
    \/ RequestTokenCheck(r) \/ RequestTokenDone(r)

\* The joined peers write: every acquire() and release() is the one of
\* write_acquire() and write_release().
NextRW ==
    \E r \in Peers :
        \/ WriteAcquire(r) \/ WriteAcquireToken(r) \/ WriteAcquireLocal(r)
        \/ WriteRelease(r) \/ WriteReleaseToken(r) \/ WriteReleaseMutex(r)
        \/ WriteReleaseLocal(r)
        \/ ProtocolStep(r)
        \/ Die(r)
        \/ (AcquireNext(r) /\ Within)
        \/ (ReleaseOffer(r) /\ Within)
        \/ (RequestToken(r) /\ Within)
        \/ (ObtainToken(r) /\ Within)

SpecRW == InitJoined /\ [][NextRW]_vars

\* A remote caller (the stub of peer r) calls unregister_peer(pid) on peer q,
\* for any id, known to q or not; one call at a time.
StubUnregister(r) ==
    \E q \in Peers \ {r} : \E pid \in Peers :
        /\ life[r] = "idle"
        /\ \A x \in Peers : stk[x] = <<>>
        /\ stk' = [stk EXCEPT ![r] =
                     <<[Frame(r, "stub", "s_ret") EXCEPT !.pid = pid, !.cur = q],
                       [Frame(q, "unregister_peer", "u0") EXCEPT !.pid = pid]>>]
        /\ exc' = [exc EXCEPT ![r] = ""]
        /\ UNCHANGED <<life, ns, peers, time, state, token, request, mon>>

\* The stub has the reply: the result, or the error raised to the caller.
StubReturn(r) ==
    /\ Running(r, "stub", "s_ret")
    /\ stk' = [stk EXCEPT ![r] = <<>>]
    /\ exc' = [exc EXCEPT ![r] = IF Top(r).ret = "ok" THEN "" ELSE Top(r).ret]
    /\ UNCHANGED <<life, ns, peers, time, state, token, request, mon>>

\* The unregister_peer handler of the joined peers under calls for any id.
NextDirectory ==
    \E r \in Peers :
        \/ StubUnregister(r) \/ StubReturn(r)
        \/ UnregisterPeerList(r) \/ UnregisterPeerLock(r)

SpecDirectory == InitJoined /\ [][NextDirectory]_vars

\* Peer p is inside acquire() or release(), or between the two.
Busy(p) == stk[p] # <<>> \/ life[p] = "cs"

\* At most one peer is busy.
Serial == \A p, q \in Peers : Busy(p) /\ Busy(q) => p = q

\* The token protocol without contention: a peer calls acquire() only when
\* no other peer is inside acquire() or release() or between the two.
NextSerial ==
    /\ \E r \in Peers :
          \/ QuietStep(r)
          \/ AcquireNext(r) \/ ReleaseOffer(r) \/ RequestToken(r) \/ ObtainToken(r)
    /\ Serial'

SpecSerial == InitJoined /\ [][NextSerial]_vars

\* acquire() of the local thread of peer q has sent its requests and waits
\* for the token in the loop of line 209.
Waiting(q) ==
    /\ life[q] = "acquiring"
    /\ Len(stk[q]) = 1
    /\ stk[q][1].proc = "acquire"
    /\ stk[q][1].pc = "a_wait"

\* The holder calls release() when no other peer is in the middle of its
\* broadcast.
ReleaseAfterBroadcast(r) ==
    /\ Release(r)
    /\ \A q \in Peers \ {r} : life[q] = "acquiring" => Waiting(q)

\* Peer 1 is in its critical section (it called acquire() with the token
\* present and no contention) and the local threads of peers 2 and 3 have
\* just called acquire().
InitChain ==
    /\ life = [p \in Peers |-> IF p = Min(Peers) THEN "cs" ELSE "acquiring"]
    /\ ns = Peers
    /\ peers = [p \in Peers |-> Peers]
    /\ time = [p \in Peers |-> 0]
    /\ state = [p \in Peers |-> IF p = Min(Peers) THEN TOKEN_HELD ELSE NO_TOKEN]
    /\ token = [p \in Peers |-> [q \in Peers |-> 0]]
    /\ request = [p \in Peers |-> EmptyDict]
    /\ mon = [p \in Peers |-> Free]
    /\ stk = [p \in Peers |->
                IF p = Min(Peers) THEN <<>> ELSE <<Frame(p, "acquire", "a0")>>]
    /\ exc = [p \in Peers |-> ""]

\* The chained hand-off: the requests of peers 2 and 3 race with each other,
\* every holder releases after the broadcasts, and nobody asks again.  No
\* request_token handler finds the token present, so none calls release().
NextChain ==
    \E r \in Peers :
        \/ AcquireCheck(r) \/ AcquireLock(r)
        \/ AcquireSend(r) \/ AcquireResume(r) \/ AcquireUnlock(r)
        \/ AcquireWait(r) \/ AcquireSet(r)
        \/ ReleaseAfterBroadcast(r)
        \/ ReleaseCheck(r) \/ ReleaseLock(r) \/ ReleaseKeep(r)
        \/ ReleaseResume(r)
        \/ RequestTokenCheck(r)
        \/ AcquireNext(r) \/ ReleaseOffer(r) \/ RequestToken(r) \/ ObtainToken(r)

SpecChain == InitChain /\ [][NextChain]_vars

\* The joined peers stop in any number and order: a peer without the token
\* dies, any peer is shut down.  Nobody asks for the token.
NextDepart ==
    \E r \in Peers :
        \/ Crash(r)
        \/ Shutdown(r)
        \/ DestroyCheck(r) \/ DestroyLock(r)
        \/ DestroyOffer(r) \/ DestroyResume(r) \/ DestroyDone(r)
        \/ ObtainToken(r)
        \/ PLDestroyLock(r) \/ PLDestroyNext(r) \/ PLDestroyResume(r)
        \/ PLDestroyDone(r)
        \/ UnregisterPeerList(r) \/ UnregisterPeerLock(r)
        \/ ConnectionLost(r)

SpecDepart == InitJoined /\ [][NextDepart]_vars

\* The steps of the chain of peer r that the scheduler runs once they are
\* enabled: every step of an operation or handler in progress, and the
\* release() a peer in its critical section calls.
LiveStep(r) ==
    \/ ProtocolStep(r)
    \/ Release(r)
    \/ DestroyCheck(r) \/ DestroyReleased(r) \/ DestroyLock(r)
    \/ DestroyOffer(r) \/ DestroyResume(r) \/ DestroyDone(r)
    \/ PLDestroyLock(r) \/ PLDestroyNext(r) \/ PLDestroyResume(r)
    \/ PLDestroyDone(r)
    \/ UnregisterPeerList(r) \/ UnregisterPeerLock(r)
    \/ ConnectionLost(r)
    \/ AcquireNext(r) \/ ReleaseOffer(r) \/ RequestToken(r) \/ ObtainToken(r)

\* A local thread calls acquire() when no other peer is inside acquire() or
\* release() or between the two.
AcquireAlone(r) ==
    /\ Acquire(r)
    /\ \A q \in Peers \ {r} : life[q] \notin {"acquiring", "cs", "releasing"}

\* The joined peers ask for the token one at a time, and one of them may be
\* shut down at any moment; no peer dies.
NextLive ==
    \E r \in Peers : AcquireAlone(r) \/ Destroy(r) \/ LiveStep(r)

SpecLive == InitJoined /\ [][NextLive]_vars

\* SpecLive with every thread scheduled and no thread passed over for the
\* monitor for ever: a step of a chain that is enabled again and again is
\* taken.  Nothing makes an idle peer call acquire() or shut down.
FairLive == SpecLive /\ \A r \in Peers : SF_vars(LiveStep(r))

\* ---------------------------------------------------------------- claims
Resident(p) == state[p] \in {TOKEN_PRESENT, TOKEN_HELD}

\* C1 (mutual exclusion): in every reachable state at most one peer has
\* state = TOKEN_HELD.
C1_MutualExclusion ==
    \A p, q \in Peers :
        state[p] = TOKEN_HELD /\ state[q] = TOKEN_HELD => p = q

\* No call is in flight and no operation is in progress on any peer.
Quiescent ==
    /\ \A p \in Peers : stk[p] = <<>>
    /\ \A p \in Peers : life[p] \in {"new", "idle", "cs", "gone", "dead"}

\* C2 (single token): in every quiescent state with at least one live peer,
\* exactly one live peer has the token resident (TOKEN_PRESENT or TOKEN_HELD).
C2_SingleToken ==
    Quiescent /\ (\E p \in Peers : Alive(p))
        => Cardinality({p \in Peers : Alive(p) /\ Resident(p)}) = 1

\* The step of peer r is DistributedLock.initialize().
InitStep(r) ==
    /\ Running(r, "initialize", "l0")
    /\ stk'[r] # <<>>
    /\ stk'[r][1].pc = "l_done"

\* The ids require_all returned to the joining peer r.
Rep(r) == {stk[r][1].pids[i] : i \in 1..Len(stk[r][1].pids)}

\* C3 (bootstrap determinism), as claimed: DistributedLock.initialize() leaves
\* a joiner in TOKEN_PRESENT exactly when its id is the lowest of the ids
\* require_all returned, also when it omitted lower ids it could not reach.
C3_BootstrapRequireAll ==
    [][\A r \in Peers :
         InitStep(r) => (state'[r] = TOKEN_PRESENT <=> r = Min(Rep(r)))]_vars

\* C3, amended: DistributedLock.initialize() leaves a joiner in TOKEN_PRESENT
\* exactly when its id is the lowest of its own directory or the token was
\* handed to it before; otherwise it leaves it in NO_TOKEN.
C3_BootstrapOwnDirectory ==
    [][\A r \in Peers :
         InitStep(r) =>
            state'[r] = IF r = Min(peers[r]) \/ state[r] = TOKEN_PRESENT
                        THEN TOKEN_PRESENT ELSE NO_TOKEN]_vars

\* A joiner that omitted every lower id require_all returned has initialized
\* its lock and has the token.
C3_Witness ==
    \E r \in Peers :
        /\ Running(r, "initialize", "l_done")
        /\ Min(Rep(r)) < r
        /\ Min(peers[r]) = r
        /\ state[r] = TOKEN_PRESENT

\* The release() of chain r has had a hand-off fail and scans on: the index it
\* scans from is no longer the releaser's own.
HandOffFailed(r) ==
    /\ Running(r, "release", "r_scan")
    /\ Top(r).cur # IndexOf(Top(r).pids, Top(r).peer)

\* C4 (hand-off rollback): after a failed hand-off the releasing peer's token
\* map equals the snapshot taken before the attempt, for every entry.
C4_Rollback ==
    \A r \in Peers :
        HandOffFailed(r) => token[Top(r).peer] = Top(r).tok

\* The operation of chain r, in an a_loop iteration of acquire(), takes a step.
AcquireLoopStep(r) ==
    /\ Running(r, "acquire", "a_loop")
    /\ stk'[r] # stk[r]
    /\ life'[r] # "dead"

\* C5 (failure suppression in acquire): every iteration of the request loop
\* whose peer is in the directory sends request_token, also after the call to
\* an earlier peer failed, and the loop ends without an error to the caller.
C5_FailureSuppressed ==
    [][\A r \in Peers :
         AcquireLoopStep(r) =>
            LET f == Top(r)
                i == NextOther(f.pids, f.cur, r)
            IN  IF i = 0
                THEN /\ stk'[r] # <<>>
                     /\ stk'[r][1].pc = "a_wait"
                ELSE f.pids[i] \in peers[r] => stk'[r][1].pc = "a_send"]_vars

\* Peer q has asked peer p for the token and has not been served:
\* request[q] > token[q] on p.
Wants(p, q) ==
    /\ q \in DOMAIN request[p]
    /\ q \in DOMAIN token[p]
    /\ request[p][q] > token[p][q]

\* The peers release() on p comes to before pids[i], in circular ascending
\* order from just after p's own id.
Before(p, pids, i) ==
    LET ord == ScanOrder(pids, IndexOf(pids, p), p)
    IN  {pids[ord[k]] : k \in {j \in 1..Len(ord) :
                                 \A m \in 1..j : ord[m] # i}}

\* The release() on top of chain r, at pc, takes a step.
ReleaseStep(r, pc) ==
    /\ Running(r, "release", pc)
    /\ stk'[r] # stk[r]

\* C6 (grant rule): release() sends obtain_token only to the first reachable
\* peer, in circular ascending order from just after its own id, whose request
\* timestamp exceeds the token's entry for it; after the reply the state is
\* NO_TOKEN; release() ends its scan without a hand-off only when no reachable
\* peer qualifies, and then the state is TOKEN_PRESENT.
C6_GrantRule ==
    [][\A r \in Peers :
         LET f == Top(r)
             p == f.peer
         IN  /\ ReleaseStep(r, "r_scan") /\ Len(stk'[r]) > Len(stk[r]) =>
                  LET g == stk'[r][Len(stk'[r])]
                  IN  /\ g.proc = "obtain_token"
                      /\ Wants(p, g.peer)
                      /\ \A q \in Before(p, f.pids, stk'[r][Len(stk[r])].cur) :
                            ~(Alive(q) /\ Wants(p, q))
             /\ ReleaseStep(r, "r_ret") /\ f.ret = "ok" =>
                  state'[p] = NO_TOKEN
             /\ ReleaseStep(r, "r_scan") /\ Len(stk'[r]) < Len(stk[r]) =>
                  /\ \A q \in peers[p] \ {p} : ~(Alive(q) /\ Wants(p, q))
                  /\ state'[p] = TOKEN_PRESENT]_vars

\* A register_peer or unregister_peer handler on peer p is between its update
\* of the directory and its update of the token map.
Updating(p) ==
    \E r \in Peers : \E i \in 1..Len(stk[r]) :
        /\ stk[r][i].peer = p
        /\ stk[r][i].pc \in {"g1", "u1"}

\* C7 (directory consistency): on every running peer that has initialized its
\* lock and is not in the middle of a register_peer or unregister_peer
\* handler, when the token is resident the keys of the token map are the keys
\* of the directory.
C7_DirectoryConsistency ==
    \A p \in Peers :
        /\ life[p] \in {"idle", "acquiring", "cs", "releasing"}
        /\ Resident(p)
        /\ ~Updating(p)
        => DOMAIN token[p] = peers[p]

\* The operation proc on top of chain r calls the handler hproc on another
\* peer in this step.
Sends(r, proc, hproc) ==
    /\ stk[r] # <<>>
    /\ Top(r).proc = proc
    /\ Len(stk'[r]) = Len(stk[r]) + 1
    /\ stk'[r][Len(stk'[r])].proc = hproc

\* C8 (clock advance on send): the step of acquire() that prepares
\* request_token, and every step of release() or destroy() that sends
\* obtain_token, leaves the sender's clock strictly greater than before.
C8_ClockAdvance ==
    [][\A r \in Peers :
         /\ Running(r, "acquire", "a_loop") /\ stk'[r] # <<>>
               /\ stk'[r][1].pc = "a_send"
               => time'[r] > time[r]
         /\ Sends(r, "release", "obtain_token")
               => time'[Top(r).peer] > time[Top(r).peer]
         /\ Sends(r, "destroy", "obtain_token")
               => time'[Top(r).peer] > time[Top(r).peer]]_vars

Obtained(r) ==
    /\ Running(r, "obtain_token", "o0")
    /\ Len(stk'[r]) = Len(stk[r]) - 1
    /\ stk'[r][Len(stk'[r])].ret = "ok"

\* C10 (token/clock agreement on hand-off): when obtain_token succeeds on
\* peer B, the received token's entry for B is the sender's clock at the time
\* of the call, and B's clock afterwards is at least that entry.
C10_TokenClockAgreement ==
    [][\A r \in Peers :
         Obtained(r) =>
            LET B == Top(r).peer
            IN  /\ token'[B][B] = Top(r).t
                /\ time'[B] >= token'[B][B]]_vars

\* The local writer lock of peer p is held: write_acquire() has returned and
\* write_release() has not yet given it back.
WriterLocked(p) ==
    \/ life[p] = "writing"
    \/ stk[p] # <<>> /\ stk[p][1].proc = "write_release"

\* The writer thread of peer p holds the Token Lock: acquire() has returned
\* and the matching release() has not been called.
TokenLockHeld(p) ==
    \/ life[p] = "writing"
    \/ stk[p] # <<>> /\ stk[p][1].proc = "write_release" /\ stk[p][1].pc = "v0"

\* C11 (writer lock under the token): wherever the local writer lock is held,
\* the Token Lock is held by the writer thread; so write_release() gives the
\* writer lock back before it calls release().
C11_WriterUnderToken ==
    \A p \in Peers : WriterLocked(p) => TokenLockHeld(p)

\* DistributedLock.destroy() of peer r returns to its caller in this step:
\* the server goes on to PeerList.destroy().
DestroyReturns(r) ==
    /\ stk[r] # <<>>
    /\ stk[r][1].proc = "destroy"
    /\ stk'[r] # <<>>
    /\ stk'[r][1].proc = "pl_destroy"

\* C12 (terminal state of a departing peer): whenever destroy() returns, the
\* departing peer's state is NO_TOKEN, also when it is alone in its directory.
C12_TerminalState ==
    [][\A r \in Peers : DestroyReturns(r) => state'[r] = NO_TOKEN]_vars

\* An obtain_token call carrying the token to peer q has not been handled yet.
InFlightTo(q) ==
    \E c \in Peers : \E i \in 1..Len(stk[c]) :
        /\ stk[c][i].proc = "obtain_token"
        /\ stk[c][i].peer = q
        /\ stk[c][i].pc = "o0"

\* release() on peer q has sent the token and has no error back: its state
\* is still TOKEN_PRESENT although the token has left.
GivingAway(q) ==
    \E c \in Peers : \E i \in 1..Len(stk[c]) :
        /\ stk[c][i].proc = "release"
        /\ stk[c][i].peer = q
        /\ stk[c][i].pc = "r_ret"
        /\ stk[c][i].ret \in {"", "ok"}

\* The remaining peers (all but the departing r) that have the token, resident
\* or on its way to them.
Heirs(r) ==
    {q \in Peers \ {r} :
        Alive(q) /\ ((Resident(q) /\ ~GivingAway(q)) \/ InFlightTo(q))}

\* destroy() of peer r gets the reply of its obtain_token and sets NO_TOKEN.
HandsOver(r) ==
    /\ Running(r, "destroy", "d_ret")
    /\ Top(r).ret = "ok"
    /\ state[r] = TOKEN_PRESENT
    /\ state'[r] = NO_TOKEN

\* The entries of pids that destroy() passed over before position cur.
PassedOver(r, pids, cur) ==
    LET own == IndexOf(pids, r)
    IN  {pids[j] : j \in {k \in 1..Len(pids) :
                            IF cur > own THEN own < k /\ k < cur
                                         ELSE k > own \/ k < cur}}

\* C13 (graceful holder departure): when destroy() of a holder hands the token
\* over, the receiver is another peer, every directory entry passed over on
\* the way is unreachable, and afterwards exactly one remaining peer has the
\* token.
C13_GracefulDeparture ==
    [][\A r \in Peers :
          HandsOver(r) =>
              LET f == Top(r)
              IN  /\ f.pids[f.cur] # r
                  /\ \A q \in PassedOver(r, f.pids, f.cur) : ~Alive(q)
                  /\ Cardinality(Heirs(r)') = 1]_vars

\* The local thread of peer p is inside release(), called after acquire().
LocalRelease(p) ==
    /\ life[p] = "releasing"
    /\ stk[p] # <<>>
    /\ stk[p][1].proc = "release"

\* The local thread of peer p is inside acquire().
LocalAcquire(p) ==
    /\ life[p] = "acquiring"
    /\ stk[p] # <<>>
    /\ stk[p][1].proc = "acquire"

\* C14 (uncontended acquire/release): while no other peer has an outstanding
\* request, acquire() and the release() after it change no entry of the
\* peer's request map, release() sends the token to nobody and ends with
\* state = TOKEN_PRESENT.
C14_Uncontended ==
    [][\A p \in Peers :
          /\ LocalAcquire(p) \/ LocalRelease(p) => request'[p] = request[p]
          /\ LocalRelease(p) =>
                /\ ~Sends(p, "release", "obtain_token")
                /\ (stk'[p] = <<>> => state'[p] = TOKEN_PRESENT)]_vars

\* release() after acquire() scans a request map that holds an entry for a
\* live peer, served earlier.
C14_Witness ==
    \E p \in Peers : \E q \in Peers \ {p} :
        /\ LocalRelease(p)
        /\ Running(p, "release", "r_scan")
        /\ state[p] = TOKEN_PRESENT
        /\ Alive(q)
        /\ q \in DOMAIN request[p]

\* The directory of peer r holds its own id only.
Solo(r) == peers[r] = {r}

\* acquire() of the local thread of r spins in the loop of line 209.
Spinning(r) ==
    /\ LocalAcquire(r)
    /\ Len(stk[r]) = 1
    /\ stk[r][1].pc = "a_wait"
    /\ state[r] = NO_TOKEN

\* C15 (single-peer system): while the directory of a peer holds only the
\* peer itself, acquire(), release() and destroy() send no message, acquire()
\* does not wait for the token, and release() ends with state = TOKEN_PRESENT.
C15_SinglePeer ==
    [][\A r \in Peers :
          Solo(r) /\ Solo(r)' =>
              /\ ~Sends(r, "acquire", "request_token")
              /\ ~Sends(r, "release", "obtain_token")
              /\ ~Sends(r, "destroy", "obtain_token")
              /\ ~Spinning(r)'
              /\ (LocalRelease(r) /\ stk'[r] = <<>> => state'[r] = TOKEN_PRESENT)]_vars

\* DistributedLock.unregister_peer, called on top of chain r, runs in this
\* step.
UnregisterStep(r) ==
    /\ Running(r, "unregister_peer", "u1")
    /\ Len(stk'[r]) < Len(stk[r])

\* C16 (unregister clears the request): after DistributedLock.unregister_peer
\* (pid) has run, pid is not a key of the request map, also when pid was not a
\* key of the token map.
C16_UnregisterClearsRequest ==
    [][\A r \in Peers :
          UnregisterStep(r) =>
              Top(r).pid \notin DOMAIN request'[Top(r).peer]]_vars

\* The handler of request_token on top of chain r runs its monitor block in
\* this step.
ReceiveStep(r) ==
    /\ Running(r, "request_token", "q0")
    /\ stk'[r] # stk[r]

\* C17 (receive rule of request_token): after the handler of
\* request_token(t, pid) has run on a peer with clock c and request entry r
\* for pid (0 when absent), the clock is max(c, t) + 1, so strictly greater
\* than t, and request[pid] is max(r, new clock).
C17_ReceiveRule ==
    [][\A r \in Peers :
          ReceiveStep(r) =>
              LET f == Top(r)
                  q == f.peer
                  old == IF f.pid \in DOMAIN request[q] THEN request[q][f.pid] ELSE 0
              IN  /\ time'[q] = Max(time[q], f.t) + 1
                  /\ time'[q] > f.t
                  /\ request'[q][f.pid] = Max(old, time'[q])]_vars

\* The handler on top of chain r, at pc of proc, takes its step.
HandlerStep(r, proc, pc) ==
    /\ Running(r, proc, pc)
    /\ stk'[r] # stk[r]

\* The maps d and e agree on every key but k.
SameBut(d, e, k) ==
    /\ DOMAIN d \ {k} = DOMAIN e \ {k}
    /\ \A x \in DOMAIN d \ {k} : d[x] = e[x]

\* C18 (join/leave round trip): register_peer(p) for a p that is not in the
\* directory adds exactly p to the directory and touches only token[p];
\* unregister_peer(p) removes exactly p from the directory and touches only
\* token[p] and request[p], which was absent before register_peer(p); neither
\* call changes the state or the clock.  So the two calls in sequence leave
\* the directory, the state, the clock, the request map and the token entries
\* of all other peers as they were.
C18_RoundTrip ==
    [][\A r \in Peers :
          LET f == Top(r)
              q == f.peer
              p == f.pid
          IN  /\ HandlerStep(r, "register_peer", "g0") /\ p \notin peers[q] =>
                    /\ peers'[q] = peers[q] \cup {p}
                    /\ peers'[q] \ {p} = peers[q]
                    /\ p \notin DOMAIN request[q]
                    /\ token'[q] = token[q] /\ request'[q] = request[q]
                    /\ state'[q] = state[q] /\ time'[q] = time[q]
              /\ HandlerStep(r, "register_peer", "g1") =>
                    /\ SameBut(token[q], token'[q], p)
                    /\ peers'[q] = peers[q] /\ request'[q] = request[q]
                    /\ state'[q] = state[q] /\ time'[q] = time[q]
              /\ HandlerStep(r, "unregister_peer", "u0") /\ p \in peers[q] =>
                    /\ peers'[q] = peers[q] \ {p}
                    /\ token'[q] = token[q] /\ request'[q] = request[q]
                    /\ state'[q] = state[q] /\ time'[q] = time[q]
              /\ HandlerStep(r, "unregister_peer", "u1") =>
                    /\ SameBut(token[q], token'[q], p)
                    /\ SameBut(request[q], request'[q], p)
                    /\ peers'[q] = peers[q]
                    /\ state'[q] = state[q] /\ time'[q] = time[q]]_vars

\* Peer p registered with peer q when it joined and has unregistered: q's
\* directory and token map no longer hold p, and the token map of q carries
\* a stamp.
C18_Witness ==
    \E q \in Peers : \E p \in Peers \ {q} :
        /\ life[p] = "gone"
        /\ Alive(q)
        /\ q \in peers[p]
        /\ p > q
        /\ p \notin peers[q]
        /\ token[q] # None
        /\ p \notin DOMAIN token[q]
        /\ \E x \in DOMAIN token[q] : token[q][x] > 0

\* C19 (unknown peer on unregister): PeerList.unregister_peer(pid) for a pid
\* that is not in the directory raises to the caller and leaves the directory
\* unchanged; for a pid in the directory it removes exactly that entry and does
\* not raise.
C19_UnknownPeer ==
    [][\A r \in Peers :
          HandlerStep(r, "unregister_peer", "u0") =>
              LET f == Top(r)
                  q == f.peer
                  n == Len(stk[r])
              IN  IF f.pid \in peers[q]
                  THEN /\ peers'[q] = peers[q] \ {f.pid}
                       /\ Len(stk'[r]) = n
                  ELSE /\ peers'[q] = peers[q]
                       /\ Len(stk'[r]) = n - 1
                       /\ stk'[r][n - 1].ret = "Exception"]_vars

\* A caller has the error of unregister_peer(pid) back from a peer whose
\* directory does not hold pid.
C19_Witness ==
    \E r \in Peers :
        /\ Running(r, "stub", "s_ret")
        /\ Top(r).ret = "Exception"
        /\ Top(r).pid \notin peers[Top(r).cur]

\* acquire(), frame i of chain r, is blocked in an outbound request_token call.
Broadcasting(r, i) ==
    /\ i < Len(stk[r])
    /\ stk[r][i].proc = "acquire"
    /\ stk[r][i].pc = "a_ret"
    /\ stk[r][i + 1].proc = "request_token"

\* C20 (monitor dropped around the broadcast): whenever acquire() is blocked
\* in an outbound request_token call, its thread does not hold the peer's
\* monitor.
C20_MonitorDropped ==
    \A r \in Peers : \A i \in 1..Len(stk[r]) :
        Broadcasting(r, i) => mon[stk[r][i].peer] # <<r, i>>

\* While acquire() of peer r is blocked in request_token, the handler on the
\* called peer has handed the token over: obtain_token has run to its end on
\* peer r (release() has its reply) before the outbound call returned.
C20_Witness ==
    \E r \in Peers :
        /\ Len(stk[r]) = 3
        /\ Broadcasting(r, 1)
        /\ stk[r][3].proc = "release"
        /\ stk[r][3].pc = "r_ret"
        /\ stk[r][3].ret = "ok"
        /\ stk[r][3].pids[stk[r][3].cur] = r
        /\ state[r] = TOKEN_PRESENT

\* The peers that wait for the token in acquire() and do not have it.
Waiters(p) == {q \in Peers \ {p} : Waiting(q) /\ state[q] = NO_TOKEN}

\* The peer of W that comes first in circular ascending order after p.
FirstAfter(p, W) ==
    LET n == Cardinality(Peers) + 1
    IN  CHOOSE q \in W : \A x \in W : ((q - p) % n) <= ((x - p) % n)

\* C21 (chained hand-off): with peers 1, 2, 3 reachable, peer 1 holding the
\* token and peers 2 and 3 having broadcast their requests, each release()
\* sends the token to the next waiting peer in circular order (1 to 2, then 2
\* to 3), and a release() with no waiting peer keeps the token: the token does
\* not go to a peer that has no pending request while another peer waits.
C21_ChainedHandOff ==
    [][\A p \in Peers :
          LocalRelease(p) /\ ReleaseStep(p, "r_scan") =>
              IF Waiters(p) = {}
              THEN stk'[p] = <<>> /\ state'[p] = TOKEN_PRESENT
              ELSE /\ Sends(p, "release", "obtain_token")
                   /\ stk'[p][2].peer = FirstAfter(p, Waiters(p))]_vars

\* Peer 3 is in its critical section with a token that went through peer 2,
\* after peers 1 and 2 released.
C21_Witness ==
    /\ life = <<"idle", "idle", "cs">>
    /\ state = <<NO_TOKEN, NO_TOKEN, TOKEN_HELD>>
    /\ token[3][2] > token[3][1]
    /\ token[3][3] > token[3][2]

\* The local thread of peer p is in its critical section: acquire() has
\* returned and release() has not been called.
InCriticalSection(p) == life[p] = "cs" /\ stk[p] = <<>>

\* C22 (critical section keeps the token): from the return of acquire() to
\* the local call of release() the peer's state is TOKEN_HELD; no
\* request_token handler running at the same time changes it.
C22_HeldInCriticalSection ==
    \A p \in Peers : InCriticalSection(p) => state[p] = TOKEN_HELD

\* The places where a handler takes the monitor of the peer it runs on.
MonitorEntry == {"q0", "o0", "g0", "g1", "u0", "u1"}

\* Frame i of chain r, on peer p, owns p's monitor and is blocked in an
\* outbound call whose handler, on peer q, is waiting for q's monitor.
BlockedOn(r, i, p, q) ==
    /\ i + 1 = Len(stk[r])
    /\ stk[r][i].peer = p
    /\ mon[p] = <<r, i>>
    /\ stk[r][i + 1].peer = q
    /\ stk[r][i + 1].pc \in MonitorEntry
    /\ Alive(q)
    /\ mon[q] # Free

\* C23 (no cross-peer monitor deadlock): in no reachable state do two peers
\* each hold their own monitor while blocked in an outbound call whose handler
\* on the other peer waits for that peer's monitor.
C23_NoMonitorDeadlock ==
    \A p, q \in Peers : \A r, s \in Peers :
        \A i \in 1..Len(stk[r]) : \A j \in 1..Len(stk[s]) :
            ~(p # q /\ BlockedOn(r, i, p, q) /\ BlockedOn(s, j, q, p))

\* destroy() of peer r is inside its hand-over loop, with the monitor.
HandingOver(r) ==
    /\ stk[r] # <<>>
    /\ stk[r][1].proc = "destroy"
    /\ stk[r][1].pc \in {"d_loop", "d_ret"}

\* destroy() of peer r waits for an obtain_token call it made to peer q, whose
\* handler waits for q's monitor.
OfferedTo(r, q) ==
    /\ Len(stk[r]) = 2
    /\ stk[r][1].proc = "destroy"
    /\ stk[r][1].pc = "d_ret"
    /\ stk[r][2].proc = "obtain_token"
    /\ stk[r][2].peer = q

\* C24 (destroy() terminates and never targets itself): destroy() called with
\* the token present and two or more directory entries never sends
\* obtain_token to the departing peer's own id, so it is never blocked on its
\* own monitor and goes on to release it.
C24_NeverTargetsItself ==
    \A r \in Peers : HandingOver(r) => ~OfferedTo(r, r)

\* acquire() of the local thread of peer p has found state = NO_TOKEN at
\* line 178.
Asked(p) ==
    /\ LocalAcquire(p)
    /\ stk[p][1].pc = "a1"

\* A clock has reached the bound of the runs.
Capped == \E q \in Peers : time[q] >= MaxTime

\* C25 (request liveness): while all peers stay reachable and every peer in
\* its critical section eventually calls release(), a peer that called
\* acquire() in state NO_TOKEN eventually leaves acquire() (with
\* state = TOKEN_HELD), also when the token has moved to an idle peer that had
\* recorded the request.
C25_RequestLiveness ==
    \A p \in Peers : Asked(p) ~> (life[p] # "acquiring" \/ Capped)

====
